---- MODULE Spec2Model ----
(***************************************************************************)
(* Model of build_docs.py, the reference-documentation generator of        *)
(* webgestaltpy: sanitize_file_name, process_method and start.             *)
(*                                                                         *)
(* Text is modelled as a sequence of characters, each character a          *)
(* one-character string; the backtick, which a TLA+ string cannot hold,    *)
(* is the atom BQ.                                                         *)
(***************************************************************************)
EXTENDS Naturals, Sequences, FiniteSets, TLC

VARIABLES
    dirNames,     \* dir(webgestaltpy): the collaborator's names, in enumeration order
    PRIORITY,     \* the PRIORITY list of the config section
    SKIP,         \* the SKIP list of the config section (only membership is used)
    dirExists,    \* os.path.exists(OUTPUT_DIR)
    fs,           \* the files of OUTPUT_DIR: file name -> content
    pc,           \* position in start(): ready, priority, rest, write, done
    run,          \* which invocation of start() this is: first, second
    functions,    \* the local `functions` of start()
    idx,          \* position of the running for loop
    new_content,  \* the local `new_content` of start()
    emitted,      \* history: the names passed to process_method, in call order
    wrote,        \* history: the names process_method wrote a page for
    lastWrite,    \* history: <<name>> when the last step wrote name's page
    fsRun1,       \* history: the files as the first invocation left them
    arg,          \* input of the pure function under check
    result,       \* its output
    fpc           \* position of the pure-function check: input, output

vars == <<dirNames, PRIORITY, SKIP, dirExists, fs, pc, run, functions, idx,
          new_content, emitted, wrote, lastWrite, fsRun1, arg, result, fpc>>

runVars == <<dirNames, PRIORITY, SKIP, dirExists, fs, pc, run, functions, idx,
             new_content, emitted, wrote, lastWrite, fsRun1>>

fnVars == <<arg, result, fpc>>

-----------------------------------------------------------------------------
(* Bounds of the model.                                                    *)

MaxCatalog == 3

MaxNameLen == 3

MaxDocLen == 4

-----------------------------------------------------------------------------
(* Characters and text.                                                    *)

BQ == "backtick"

\* str.isalnum() on the ASCII range
Alnum ==
    { "a", "b", "c", "d", "e", "f", "g", "h", "i", "j", "k", "l", "m",
      "n", "o", "p", "q", "r", "s", "t", "u", "v", "w", "x", "y", "z",
      "A", "B", "C", "D", "E", "F", "G", "H", "I", "J", "K", "L", "M",
      "N", "O", "P", "Q", "R", "S", "T", "U", "V", "W", "X", "Y", "Z",
      "0", "1", "2", "3", "4", "5", "6", "7", "8", "9" }

\* the characters str.strip() and str.rstrip() remove
Whitespace == { " ", "\t", "\n", "\r", "\f" }

Range(s) == { s[i] : i \in 1..Len(s) }

RECURSIVE Concat(_)
\* the concatenation of a sequence of texts
Concat(ss) == IF ss = <<>> THEN <<>> ELSE Head(ss) \o Concat(Tail(ss))

\* str.split(sep) for a one-character separator
Split(s, sep) ==
    LET pos    == { i \in 1..Len(s) : s[i] = sep }
        n      == Cardinality(pos)
        Kth(k) == CHOOSE p \in pos : Cardinality({ q \in pos : q < p }) = k - 1
    IN  [k \in 1..(n + 1) |->
            SubSeq(s, IF k = 1 THEN 1 ELSE Kth(k - 1) + 1,
                      IF k = n + 1 THEN Len(s) ELSE Kth(k) - 1)]

RECURSIVE Join(_, _)
\* sep.join(parts)
Join(parts, sep) ==
    IF parts = <<>> THEN <<>>
    ELSE IF Len(parts) = 1 THEN Head(parts)
    ELSE Head(parts) \o <<sep>> \o Join(Tail(parts), sep)

RECURSIVE RStrip(_)
\* str.rstrip()
RStrip(s) ==
    IF s # <<>> /\ s[Len(s)] \in Whitespace
    THEN RStrip(SubSeq(s, 1, Len(s) - 1))
    ELSE s

RECURSIVE LStrip(_)
LStrip(s) ==
    IF s # <<>> /\ Head(s) \in Whitespace THEN LStrip(Tail(s)) ELSE s

\* str.strip()
Strip(s) == RStrip(LStrip(s))

RECURSIVE WsTokens(_)
\* str.split() without an argument: the maximal runs of non-whitespace
WsTokens(s) ==
    LET t == LStrip(s)
    IN  IF t = <<>> THEN <<>>
        ELSE LET ends == { i \in 1..Len(t) : t[i] \in Whitespace }
                 k    == IF ends = {} THEN Len(t) + 1
                         ELSE CHOOSE i \in ends : \A j \in ends : i <= j
             IN  <<SubSeq(t, 1, k - 1)>> \o WsTokens(SubSeq(t, k, Len(t)))

\* "#" * i
Hashes(i) == [k \in 1..i |-> "#"]

-----------------------------------------------------------------------------
(* build_docs.py                                                           *)

MaxHeaderLevel == 6

ADJUSTED_HEADERS == { Hashes(i) : i \in 1..MaxHeaderLevel }

keepcharacters == { " ", ".", "_" }

KeptChar(c) == c \in Alnum \/ c \in keepcharacters

\* mutant: .strip() in place of .rstrip()
SanitizeStripBoth(name) == Strip(SelectSeq(name, KeptChar))

sanitize_file_name(name) == RStrip(SelectSeq(name, KeptChar))

\* the loop body of lines 39-41 on one element of splits
AdjustToken(tok) ==
    IF Strip(tok) \in ADJUSTED_HEADERS THEN Append(tok, "#") ELSE tok

\* mutant: line.split() in place of line.split(" ")
AdjustLineCollapsing(line) ==
    LET splits == WsTokens(line)
    IN  Join([i \in 1..Len(splits) |-> AdjustToken(splits[i])], " ") \o <<"\n">>

\* lines 38-42 on one line of the doc string: the text added to new_doc_string
AdjustLine(line) ==
    LET splits == Split(line, " ")
    IN  Join([i \in 1..Len(splits) |-> AdjustToken(splits[i])], " ") \o <<"\n">>

\* lines 36-42: new_doc_string
NormalizeDoc(doc_string) ==
    LET lines == Split(doc_string, "\n")
    IN  Concat([i \in 1..Len(lines) |-> AdjustLine(lines[i])])

MdSuffix == <<".", "m", "d">>

IndexFile == <<"i", "n", "d", "e", "x", ".", "m", "d">>

Header ==
    <<"#", " ", "R", "e", "f", "e", "r", "e", "n", "c", "e", "\n">>
    \o <<"D", "o", "c", "u", "m", "e", "n", "t", "a", "t", "i", "o", "n", " ",
         "f", "o", "r", " ", "e", "a", "c", "h", " ", "f", "u", "n", "c", "t",
         "i", "o", "n", " ", "i", "n", " ", "w", "e", "b", "g", "e", "s", "t",
         "a", "l", "t", "p", "y", ".", "\n">>
    \o <<"\n", "#", "#", " ", "F", "u", "n", "c", "t", "i", "o", "n", "s",
         "\n", "\n">>

\* mutant: the file opened in mode "a"
WriteFileAppend(files, file, content) ==
    [f \in (DOMAIN files) \cup {file} |->
        IF f # file THEN files[f]
        ELSE IF file \in DOMAIN files THEN files[file] \o content ELSE content]

\* mutant: a file that exists is left as it is
WriteFileExclusive(files, file, content) ==
    [f \in (DOMAIN files) \cup {file} |->
        IF f \in DOMAIN files THEN files[f] ELSE content]

\* open(OUTPUT_DIR + "/" + file, "w") ... w.write(content)
WriteFile(files, file, content) ==
    [f \in (DOMAIN files) \cup {file} |-> IF f = file THEN content ELSE files[f]]

\* mutant: the title built from the sanitized name
PageTextSanitizedTitle(name, doc_string) ==
    <<"#", " ", BQ>> \o sanitize_file_name(name) \o <<BQ, "\n">>
    \o NormalizeDoc(doc_string) \o <<"\n">>

\* the text process_method writes for a documented symbol (line 46)
PageText(name, doc_string) ==
    <<"#", " ", BQ>> \o name \o <<BQ, "\n">> \o NormalizeDoc(doc_string) \o <<"\n">>

\* f"- [{p}](./{path}.md)\n"
LinkLine(p, path) ==
    <<"-", " ", "[">> \o p \o <<"]", "(", ".", "/">> \o path \o <<".", "m", "d", ")", "\n">>

\* "__" in f
HasDunder(f) == \E i \in 1..(Len(f) - 1) : f[i] = "_" /\ f[i + 1] = "_"

NoDunder(f) == ~HasDunder(f)

\* line 53: [f for f in all_functions if "__" not in f and f not in SKIP]
KeepFunction(f) == ~HasDunder(f) /\ f \notin SKIP

\* mutant: the SKIP test left out
FilterNoSkip(all_functions) == SelectSeq(all_functions, NoDunder)

FilterFunctions(all_functions) == SelectSeq(all_functions, KeepFunction)

-----------------------------------------------------------------------------
(* The collaborator: the symbols the module can expose and their __doc__.  *)

alpha == <<"a", "l", "p", "h", "a">>

alphaBang == <<"a", "l", "p", "h", "a", "!">>

beta == <<"b", "e", "t", "a">>

hidden == <<"_", "_", "h", "i", "d", "d", "e", "n">>

dash == <<"-">>

index == <<"i", "n", "d", "e", "x">>

indexBang == <<"i", "n", "d", "e", "x", "!">>

Names == { alpha, alphaBang, beta, hidden, dash, index, indexBang }

NoDoc == [present |-> FALSE, text |-> <<>>]

DocOf(text) == [present |-> TRUE, text |-> text]

\* getattr(webgestaltpy, name).__doc__
Doc(name) ==
    CASE name = alpha     -> DocOf(<<"#", " ", "A", "\n", "b", "o", "d", "y">>)
      [] name = alphaBang -> DocOf(<<"b", "a", "n", "g">>)
      [] name = beta      -> NoDoc
      [] name = hidden    -> DocOf(<<"x">>)
      [] name = dash      -> DocOf(<<"d">>)
      [] name = index     -> DocOf(<<"#", "#", " ", "I">>)
      [] name = indexBang -> DocOf(<<"i", " ", " ", "b">>)

\* process_method(name): the returned path and the files afterwards
process_method(name, files) ==
    LET doc_string == Doc(name)
    IN  IF ~doc_string.present
        THEN [path |-> <<>>, files |-> files, wrote |-> FALSE]
        ELSE LET partial_name == sanitize_file_name(name)
             IN  [path  |-> partial_name,
                  files |-> WriteFile(files, partial_name \o MdSuffix,
                                      PageText(name, doc_string.text)),
                  wrote |-> TRUE]

-----------------------------------------------------------------------------
(* start()                                                                 *)

NoFiles == [f \in {} |-> <<>>]

Old == <<"o", "l", "d">>

StaleFiles ==
    [f \in { alpha \o MdSuffix, IndexFile, <<"s", "t", "a", "l", "e">> \o MdSuffix }
        |-> Old]

SeqsUpTo(S, n) == UNION { [1..k -> S] : k \in 0..n }

Injective(s) == \A i, j \in 1..Len(s) : i # j => s[i] # s[j]

\* the configurations: SKIP lists and PRIORITY lists (empty, a single name,
\* a reordering pair, a repeated name, names that are excluded, undocumented,
\* colliding or not exposed at all)
SkipChoices == { {}, {alpha} }

PriorityChoices ==
    { <<>>, <<beta>>, <<index, alpha>>, <<alphaBang>>, <<hidden, alpha>>,
      <<alpha, alpha>>, <<dash, beta>>, <<indexBang, index>> }

\* the state of start() while a pure function is checked on its own
RunIdle ==
    /\ dirNames = <<>>
    /\ PRIORITY = <<>>
    /\ SKIP = {}
    /\ dirExists = FALSE
    /\ fs = NoFiles
    /\ pc = "off"
    /\ run = "first"
    /\ functions = <<>>
    /\ idx = 0
    /\ new_content = <<>>
    /\ emitted = <<>>
    /\ wrote = {}
    /\ lastWrite = <<>>
    /\ fsRun1 = NoFiles

Idle ==
    /\ arg = <<>>
    /\ result = <<>>
    /\ fpc = "idle"

Init ==
    /\ dirNames \in { s \in SeqsUpTo(Names, MaxCatalog) : Injective(s) }
    /\ PRIORITY \in PriorityChoices
    /\ SKIP \in SkipChoices
    /\ dirExists \in BOOLEAN
    /\ fs = IF dirExists THEN StaleFiles ELSE NoFiles
    /\ pc = "ready"
    /\ run = "first"
    /\ functions = <<>>
    /\ idx = 0
    /\ new_content = <<>>
    /\ emitted = <<>>
    /\ wrote = {}
    /\ lastWrite = <<>>
    /\ fsRun1 = NoFiles
    /\ Idle

\* where control is once the loop at `label` stands at position i
Advance(label, i, funcs) ==
    IF label = "priority" /\ i <= Len(PRIORITY) THEN <<"priority", i>>
    ELSE IF label = "priority" /\ 1 <= Len(funcs) THEN <<"rest", 1>>
    ELSE IF label = "rest" /\ i <= Len(funcs) THEN <<"rest", i>>
    ELSE <<"write", 0>>

\* lines 52-56
Start ==
    /\ pc = "ready"
    /\ functions' = FilterFunctions(dirNames)
    /\ new_content' = Header
    /\ dirExists' = TRUE
    /\ pc' = Advance("priority", 1, functions')[1]
    /\ idx' = Advance("priority", 1, functions')[2]
    /\ emitted' = <<>>
    /\ wrote' = {}
    /\ lastWrite' = <<>>
    /\ UNCHANGED <<dirNames, PRIORITY, SKIP, fs, run, fsRun1>>
    /\ UNCHANGED fnVars

\* lines 59-61 and 64-66: the call of process_method and the index line
Emit(name) ==
    LET r == process_method(name, fs)
    IN  /\ fs' = r.files
        /\ new_content' = IF r.path # <<>>
                          THEN new_content \o LinkLine(name, r.path)
                          ELSE new_content
        /\ emitted' = Append(emitted, name)
        /\ wrote' = IF r.wrote THEN wrote \cup {name} ELSE wrote
        /\ lastWrite' = IF r.wrote THEN <<name>> ELSE <<>>

Pass ==
    /\ lastWrite' = <<>>
    /\ UNCHANGED <<fs, new_content, emitted, wrote>>

\* one iteration of the loop of lines 57-61
PriorityStep ==
    /\ pc = "priority"
    /\ LET p == PRIORITY[idx]
       IN  IF p \in Range(functions) THEN Emit(p) ELSE Pass
    /\ pc' = Advance("priority", idx + 1, functions)[1]
    /\ idx' = Advance("priority", idx + 1, functions)[2]
    /\ UNCHANGED <<dirNames, PRIORITY, SKIP, dirExists, run, functions, fsRun1>>
    /\ UNCHANGED fnVars

\* one iteration of the loop of lines 62-66
RestStep ==
    /\ pc = "rest"
    /\ LET f == functions[idx]
       IN  IF f \notin Range(PRIORITY) THEN Emit(f) ELSE Pass
    /\ pc' = Advance("rest", idx + 1, functions)[1]
    /\ idx' = Advance("rest", idx + 1, functions)[2]
    /\ UNCHANGED <<dirNames, PRIORITY, SKIP, dirExists, run, functions, fsRun1>>
    /\ UNCHANGED fnVars

\* lines 67-68
WriteIndex ==
    /\ pc = "write"
    /\ fs' = WriteFile(fs, IndexFile, new_content)
    /\ fsRun1' = IF run = "first" THEN fs' ELSE fsRun1
    /\ pc' = "done"
    /\ lastWrite' = <<>>
    /\ UNCHANGED <<dirNames, PRIORITY, SKIP, dirExists, run, functions, idx,
                   new_content, emitted, wrote>>
    /\ UNCHANGED fnVars

\* the script is run again, collaborator and configuration unchanged
Rerun ==
    /\ pc = "done"
    /\ run = "first"
    /\ run' = "second"
    /\ pc' = "ready"
    /\ UNCHANGED <<dirNames, PRIORITY, SKIP, dirExists, fs, functions, idx,
                   new_content, emitted, wrote, lastWrite, fsRun1>>
    /\ UNCHANGED fnVars

Next == Start \/ PriorityStep \/ RestStep \/ WriteIndex \/ Rerun

Spec == Init /\ [][Next]_vars

-----------------------------------------------------------------------------
(* sanitize_file_name on its own.                                          *)

SanChars == { "a", "Z", "7", " ", ".", "_", "/", "\t", "!" }

MyFuncNameIn == <<"M", "y", "/", "F", "u", "n", "c", ":", "N", "a", "m", "e", "!">>

TrailingIn == <<" ", " ", "t", "r", "a", "i", "l", "i", "n", "g", ".", " ", " ">>

SanInputs == SeqsUpTo(SanChars, MaxNameLen) \cup { MyFuncNameIn, TrailingIn }

InitSanitize ==
    /\ RunIdle
    /\ arg \in SanInputs
    /\ result = <<>>
    /\ fpc = "input"

Sanitize ==
    /\ fpc = "input"
    /\ result' = sanitize_file_name(arg)
    /\ fpc' = "output"
    /\ UNCHANGED arg
    /\ UNCHANGED runVars

NextSanitize == Sanitize

SpecSanitize == InitSanitize /\ [][NextSanitize]_vars

-----------------------------------------------------------------------------
(* The heading normalization of process_method on its own.                 *)

DocChars == { "#", " ", "\t", "\n", "x" }

TitleIn == <<"#", " ", "T", "i", "t", "l", "e">>

ExampleDocs ==
    { TitleIn,
      Hashes(MaxHeaderLevel),
      Hashes(MaxHeaderLevel + 1),
      Hashes(MaxHeaderLevel) \o <<" ", "x", "\n">> \o Hashes(MaxHeaderLevel + 1) \o <<" ", "x">>,
      <<"x", " ", " ", " ", "x", "\t", "\t", "x">> }

DocInputs == SeqsUpTo(DocChars, MaxDocLen) \cup ExampleDocs

InitNormalize ==
    /\ RunIdle
    /\ arg \in DocInputs
    /\ result = <<>>
    /\ fpc = "input"

Normalize ==
    /\ fpc = "input"
    /\ result' = NormalizeDoc(arg)
    /\ fpc' = "output"
    /\ UNCHANGED arg
    /\ UNCHANGED runVars

NextNormalize == Normalize

SpecNormalize == InitNormalize /\ [][NextNormalize]_vars

-----------------------------------------------------------------------------
(* Vocabulary of the properties.                                           *)

StartsWith(s, pre) == Len(pre) <= Len(s) /\ SubSeq(s, 1, Len(pre)) = pre

\* the internal-name convention or the skip set
Excluded(n) ==
    \/ n \in SKIP
    \/ \E i \in 1..Len(n) : i < Len(n) /\ n[i] = "_" /\ n[i + 1] = "_"

NotExcluded(n) == ~Excluded(n)

\* the filtered catalog, in the collaborator's enumeration order
Catalog == SelectSeq(dirNames, NotExcluded)

Documented(n) == Doc(n).present

InCatalog(n) == n \in Range(Catalog)

NotInPriority(n) == n \notin Range(PRIORITY)

\* the emission order: priority names of the catalog, then the remaining names
EmissionOrder == SelectSeq(PRIORITY, InCatalog) \o SelectSeq(Catalog, NotInPriority)

TextLines(text) == Split(text, "\n")

\* line is a line of text: it starts at a line start and ends at a line end
IsLineOf(text, line) ==
    \E i \in 1..(Len(text) + 1) :
        /\ i = 1 \/ text[i - 1] = "\n"
        /\ i + Len(line) - 1 <= Len(text)
        /\ SubSeq(text, i, i + Len(line) - 1) = line
        /\ i + Len(line) > Len(text) \/ text[i + Len(line)] = "\n"

\* the link line "- [n](./base.md)" is a line of text
LinksTo(text, n, base) ==
    IsLineOf(text, <<"-", " ", "[">> \o n \o <<"]", "(", ".", "/">> \o base
                   \o <<".", "m", "d", ")">>)

\* some line of text is a link line of n: it starts with "- [n]("
HasLinkLine(text, n) ==
    LET start == <<"-", " ", "[">> \o n \o <<"]", "(">>
    IN  \E i \in 1..Len(text) :
            /\ i = 1 \/ text[i - 1] = "\n"
            /\ i + Len(start) - 1 <= Len(text)
            /\ SubSeq(text, i, i + Len(start) - 1) = start

\* the page of a documented symbol: title line, normalized body, blank line
PageOf(n) ==
    <<"#", " ", BQ>> \o n \o <<BQ, "\n">> \o NormalizeDoc(Doc(n).text) \o <<"\n">>

LinksOf(names) ==
    Concat([i \in 1..Len(names) |->
               <<"-", " ", "[">> \o names[i] \o <<"]", "(", ".", "/">>
               \o sanitize_file_name(names[i]) \o <<".", "m", "d", ")", "\n">>])

IndexText == fs[IndexFile]

KeptBase(n) == sanitize_file_name(n) # <<>>

-----------------------------------------------------------------------------
(* C1: after start() the link lines of index.md are the priority names of  *)
(* the filtered catalog, in priority order, then the remaining catalog     *)
(* names in enumeration order (a symbol without documentation has no       *)
(* line).                                                                  *)
C1_IndexOrder ==
    pc = "done" =>
        IndexText = Header \o LinksOf(SelectSeq(EmissionOrder, Documented))

(* C2: after a run a name has a link line in index.md if and only if       *)
(* process_method wrote a page for it during the run, also when its        *)
(* sanitized base name is empty.                                           *)
C2_LinkIffPage ==
    pc = "done" =>
        \A n \in Names : HasLinkLine(IndexText, n) <=> n \in wrote

(* C3: a name of the skip set or of the internal-name convention is never  *)
(* passed to process_method, gets no page and no link line, also when it   *)
(* is in PRIORITY.                                                         *)
C3_Excluded ==
    \A n \in { m \in Range(dirNames) \cup Range(PRIORITY) \cup SKIP : Excluded(m) } :
            /\ n \notin Range(emitted)
            /\ n \notin wrote
            /\ ~HasLinkLine(new_content, n)
            /\ pc = "done" => ~HasLinkLine(IndexText, n)

C3_Witness ==
    /\ pc = "done"
    /\ SKIP = {alpha}
    /\ PRIORITY = <<hidden, alpha>>
    /\ {hidden, alpha, alphaBang} \subseteq Range(dirNames)
    /\ alphaBang \in wrote

(* C4: a symbol without documentation does not stop the run: it gets no    *)
(* page and no index line, every other symbol is processed and is listed   *)
(* in index.md in priority-then-enumeration order; the collaborator        *)
(* {alpha, beta (no documentation), __hidden} with priority [beta] and an  *)
(* empty skip set gives exactly alpha.md and an index listing alpha.       *)
C4_MissingDoc ==
    (pc = "done" /\ \E n \in Range(Catalog) : ~Documented(n)) =>
        /\ \A n \in Range(Catalog) :
              ~Documented(n) => n \notin wrote /\ ~HasLinkLine(IndexText, n)
        /\ \A n \in Range(Catalog) :
              Documented(n) => n \in Range(emitted) /\ HasLinkLine(IndexText, n)
        /\ \E k \in 0..Len(EmissionOrder) :
              \E pick \in [1..k -> 1..Len(EmissionOrder)] :
                  /\ \A i, j \in 1..k : i < j => pick[i] < pick[j]
                  /\ IndexText = Header \o LinksOf([i \in 1..k |-> EmissionOrder[pick[i]]])
        /\ ( /\ Range(dirNames) = {alpha, beta, hidden}
             /\ PRIORITY = <<beta>>
             /\ SKIP = {}
             /\ (<<"s", "t", "a", "l", "e">> \o MdSuffix) \notin DOMAIN fs )
           => /\ DOMAIN fs = { alpha \o MdSuffix, IndexFile }
              /\ IndexText = Header \o LinksOf(<<alpha>>)
              /\ TextLines(fs[alpha \o MdSuffix])[2] = <<"#", "#", " ", "A">>

(* C5: a second run with the same collaborator and configuration leaves    *)
(* the same files with the same content as the first run did.              *)
C5_Idempotent ==
    (pc = "done" /\ run = "second") => fs = fsRun1

C5_Witness ==
    /\ pc = "done"
    /\ run = "second"
    /\ Cardinality(wrote) >= 2
    /\ (<<"s", "t", "a", "l", "e">> \o MdSuffix) \notin DOMAIN fs

(* C8 as stated: the page is the title line, a blank line, the normalized  *)
(* body and a trailing blank line.                                         *)
C8_Original ==
    lastWrite # <<>> =>
        LET n == lastWrite[1]
            file == sanitize_file_name(n) \o MdSuffix
        IN  /\ file \in DOMAIN fs
            /\ fs[file] = <<"#", " ", BQ>> \o n \o <<BQ, "\n">> \o <<"\n">>
                          \o NormalizeDoc(Doc(n).text) \o <<"\n">>

(* C8, amended: the page process_method writes at <sanitized name>.md is   *)
(* the title line with the original name, directly followed by the         *)
(* normalized body (no blank line between them), then a trailing blank     *)
(* line.                                                                   *)
C8_PageContent ==
    lastWrite # <<>> =>
        LET n == lastWrite[1]
            file == sanitize_file_name(n) \o MdSuffix
        IN  /\ Documented(n)
            /\ file \in DOMAIN fs
            /\ fs[file] = <<"#", " ", BQ>> \o n \o <<BQ, "\n">>
                          \o NormalizeDoc(Doc(n).text) \o <<"\n">>

C8_Witness ==
    /\ lastWrite = <<alphaBang>>
    /\ (alpha \o MdSuffix) \in DOMAIN fs
    /\ StartsWith(fs[alpha \o MdSuffix], <<"#", " ", BQ>> \o alphaBang \o <<BQ, "\n", "b">>)

\* two distinct documented names of the catalog with one non-empty base name
Collide(n1, n2) ==
    /\ n1 # n2
    /\ ~Excluded(n1) /\ ~Excluded(n2)
    /\ n1 \in Range(dirNames) /\ n2 \in Range(dirNames)
    /\ Documented(n1) /\ Documented(n2)
    /\ sanitize_file_name(n1) = sanitize_file_name(n2)
    /\ sanitize_file_name(n1) # <<>>

\* the name of S passed to process_method last
LastEmitted(S) ==
    emitted[CHOOSE i \in 1..Len(emitted) :
                emitted[i] \in S /\ \A j \in (i + 1)..Len(emitted) : emitted[j] \notin S]

-----------------------------------------------------------------------------
(* Properties of sanitize_file_name (SpecSanitize).                        *)

Allowed(c) == c \in Alnum \cup { " ", ".", "_" }

(* C6 as stated: "My/Func:Name!" gives "MyFuncName", "  trailing.  " gives *)
(* "trailing.": only allowed characters are kept and the surrounding       *)
(* whitespace is trimmed.                                                  *)
C6_Original ==
    fpc = "output" =>
        /\ arg = MyFuncNameIn =>
              result = <<"M", "y", "F", "u", "n", "c", "N", "a", "m", "e">>
        /\ arg = TrailingIn =>
              result = <<"t", "r", "a", "i", "l", "i", "n", "g", ".">>
        /\ \A i \in 1..Len(result) : Allowed(result[i])
        /\ result # <<>> => result[1] \notin Whitespace /\ result[Len(result)] \notin Whitespace

(* C6, amended: "My/Func:Name!" gives "MyFuncName" and "  trailing.  "     *)
(* gives "  trailing.": the result is the allowed characters of the name   *)
(* in order, with the trailing whitespace alone trimmed.                   *)
C6_Sanitize ==
    fpc = "output" =>
        LET kept == SelectSeq(arg, Allowed)
        IN  /\ arg = MyFuncNameIn =>
                  result = <<"M", "y", "F", "u", "n", "c", "N", "a", "m", "e">>
            /\ arg = TrailingIn =>
                  result = <<" ", " ", "t", "r", "a", "i", "l", "i", "n", "g", ".">>
            /\ \E k \in 0..Len(kept) :
                  /\ result = SubSeq(kept, 1, k)
                  /\ k > 0 => kept[k] \notin Whitespace
                  /\ \A j \in (k + 1)..Len(kept) : kept[j] \in Whitespace

C6_Witness ==
    /\ fpc = "output"
    /\ arg = TrailingIn
    /\ result = <<" ", " ", "t", "r", "a", "i", "l", "i", "n", "g", ".">>

-----------------------------------------------------------------------------
(* Properties of the heading normalization (SpecNormalize).                *)

\* a token made only of 1 to 6 '#'
IsHeading(t) == t # <<>> /\ Len(t) <= 6 /\ \A i \in 1..Len(t) : t[i] = "#"

Demote(t) == IF IsHeading(t) THEN t \o <<"#">> ELSE t

DemoteStripped(t) == IF IsHeading(Strip(t)) THEN t \o <<"#">> ELSE t

NotHash(c) == c # "#"

InLines == Split(arg, "\n")

OutLines == Split(result, "\n")

HeadingExamples ==
    /\ arg = TitleIn => result = <<"#", "#", " ", "T", "i", "t", "l", "e", "\n">>
    /\ arg = Hashes(6) => result = Hashes(7) \o <<"\n">>
    /\ arg = Hashes(7) => result = Hashes(7) \o <<"\n">>

(* C7 as stated: on every line each whitespace-delimited token of 1 to 6   *)
(* '#' gets one '#' appended and no other token is changed.                *)
C7_Original ==
    fpc = "output" =>
        /\ HeadingExamples
        /\ Len(OutLines) = Len(InLines) + 1
        /\ \A i \in 1..Len(InLines) :
              WsTokens(OutLines[i]) =
                  [k \in 1..Len(WsTokens(InLines[i])) |-> Demote(WsTokens(InLines[i])[k])]

(* What the code does instead (C7): on every line each token delimited by *)
(* single spaces whose form stripped of surrounding whitespace is 1 to 6   *)
(* '#' gets one '#' appended at its end, and no other token is changed.    *)
C7_SpaceTokens ==
    fpc = "output" =>
        /\ HeadingExamples
        /\ Len(OutLines) = Len(InLines) + 1
        /\ \A i \in 1..Len(InLines) :
              Split(OutLines[i], " ") =
                  [k \in 1..Len(Split(InLines[i], " ")) |->
                      DemoteStripped(Split(InLines[i], " ")[k])]

(* C9 as stated: every output line is the line's whitespace-delimited      *)
(* tokens, after demotion, joined by exactly one space; line breaks are    *)
(* preserved.                                                              *)
C9_Original ==
    fpc = "output" =>
        /\ Len(OutLines) = Len(InLines) + 1
        /\ \A i \in 1..Len(InLines) :
              OutLines[i] =
                  Join([k \in 1..Len(WsTokens(InLines[i])) |-> Demote(WsTokens(InLines[i])[k])],
                       " ")

(* C9, amended: the normalization keeps the whitespace of a line as it     *)
(* is: every character of a line other than '#' is kept, in order, the     *)
(* number of space-delimited tokens is unchanged (runs of spaces are not   *)
(* collapsed), the output line read without the '#' appended to its        *)
(* tokens is the input line, and every line, the last included, ends with  *)
(* a line break.                                                           *)
C9_Whitespace ==
    fpc = "output" =>
        /\ Len(OutLines) = Len(InLines) + 1
        /\ OutLines[Len(OutLines)] = <<>>
        /\ \A i \in 1..Len(InLines) :
              LET inToks  == Split(InLines[i], " ")
                  outToks == Split(OutLines[i], " ")
              IN  /\ SelectSeq(OutLines[i], NotHash) = SelectSeq(InLines[i], NotHash)
                  /\ Len(outToks) = Len(inToks)
                  /\ \A k \in 1..Len(inToks) :
                        outToks[k] \in { inToks[k], inToks[k] \o <<"#">> }

C9_Witness ==
    /\ fpc = "output"
    /\ arg = <<"x", " ", " ", " ", "x", "\t", "\t", "x">>
    /\ result = <<"x", " ", " ", " ", "x", "\t", "\t", "x", "\n">>

====
